---- MODULE Spec2Model ----
(***************************************************************************)
(* EgoNetSplitter (karateclub/community_detection/overlapping/             *)
(* ego_splitter.py) as a state machine: one estimator object, its          *)
(* attributes, and the stages of fit(graph) followed by get_memberships(). *)
(*                                                                         *)
(* A dict is a function with a finite domain; where the code depends on    *)
(* the enumeration order of a dict (components.items(), partitions.items())*)
(* the dict is a sequence of its values or of <<key, value>> pairs.        *)
(* Graph nodes are 0..n-1 and are enumerated in ascending order, as are    *)
(* the neighbours of a node.                                               *)
(*                                                                         *)
(* An estimator is fitted once. Every stage of fit reads only attributes   *)
(* that an earlier stage of the same fit assigned, but for self.partitions *)
(* under an unrecognised global strategy name, which the configuration,    *)
(* fixed at construction, never lets an earlier fit assign.                *)
(***************************************************************************)
EXTENDS Integers, Sequences, FiniteSets, TLC

\* Bounds of the model.
MaxNodes == 3
MaxWeight == 2

\* graph.edges(data=self.weight) yields None for an edge without the attribute.
NoWeight == 0

VARIABLES
    weight,                 \* self.weight: "weight" or "None"
    method_local,           \* self.method_local
    method_global,          \* self.method_global
    graph,                  \* self.graph
    components,             \* self.components: node -> (other node -> persona)
    personalities,          \* self.personalities: node -> sequence of personas
    index,                  \* self.index
    personality_map,        \* self.personality_map: persona -> node
    persona_graph_edges,    \* self.persona_graph_edges
    persona_graph,          \* self.persona_graph
    partitions,             \* self.partitions, in enumeration order
    overlapping_partitions, \* self.overlapping_partitions: node -> sequence
    attrs,                  \* the attributes assigned so far
    pc,                     \* the stage fit has reached
    error,                  \* the exception that ended fit, or "none"
    returned                \* what get_memberships() gave the caller

vars == <<weight, method_local, method_global, graph, components, personalities,
          index, personality_map, persona_graph_edges, persona_graph, partitions,
          overlapping_partitions, attrs, pc, error, returned>>

config == <<weight, method_local, method_global>>

----------------------------------------------------------------------------
\* Dicts and small helpers

EmptyDict == [x \in {} |-> 0]

Put(d, k, v) == [x \in DOMAIN d \cup {k} |-> IF x = k THEN v ELSE d[x]]

Range(s) == {s[i] : i \in DOMAIN s}

Min(S) == CHOOSE x \in S : \A y \in S : x <= y

Max(S) == CHOOSE x \in S : \A y \in S : x >= y

RECURSIVE SortedSeq(_)
SortedSeq(S) == IF S = {} THEN <<>> ELSE <<Min(S)>> \o SortedSeq(S \ {Min(S)})

Reverse(s) == [i \in 1..Len(s) |-> s[Len(s) + 1 - i]]

----------------------------------------------------------------------------
\* The networkx graph: nodes, and the undirected edges <<u, v>> (u <= v) with
\* their weight attribute (NoWeight when the edge carries none).

Pairs(n) == {e \in (0..(n-1)) \X (0..(n-1)) : e[1] < e[2]}

LoopChoices(n) == {{}} \cup {{<<u, u>>} : u \in 0..(n-1)}

NoGraph == [nodes |-> {}, w |-> EmptyDict]

neighbors(G, u) == {v \in G.nodes : <<u, v>> \in DOMAIN G.w \/ <<v, u>> \in DOMAIN G.w}

subgraph(G, V) ==
    [nodes |-> G.nodes \cap V,
     w |-> [e \in {d \in DOMAIN G.w : d[1] \in V /\ d[2] \in V} |-> G.w[e]]]

\* graph.edges() / graph.edges(data=weight): each edge once, from its first
\* endpoint in node order.
edges(G, data) ==
    LET es == SortedSeq({e[1] * (MaxNodes + 1) + e[2] : e \in DOMAIN G.w})
        pair(k) == <<k \div (MaxNodes + 1), k % (MaxNodes + 1)>>
    IN  [i \in 1..Len(es) |->
            IF data THEN <<pair(es[i])[1], pair(es[i])[2], G.w[pair(es[i])]>>
            ELSE pair(es[i])]

\* Estimator._check_graph: the graph is rejected when it has no node or
\* holds a self-loop.
check_graph(G) == G.nodes # {} /\ \A e \in DOMAIN G.w : e[1] # e[2]

----------------------------------------------------------------------------
\* nx.connected_components: breadth-first search from each node not yet seen,
\* in node order.

RECURSIVE plain_bfs(_, _)
plain_bfs(G, seen) ==
    LET next == seen \cup UNION {neighbors(G, u) : u \in seen}
    IN  IF next = seen THEN seen ELSE plain_bfs(G, next)

RECURSIVE connected_components(_, _)
connected_components(G, todo) ==
    IF todo = {} THEN <<>>
    ELSE LET c == plain_bfs(G, {Min(todo)})
         IN  <<c>> \o connected_components(G, todo \ c)

----------------------------------------------------------------------------
\* The local strategies an estimator may be configured with: the built-in
\* name, an unrecognised name, and callables from the ego-net to its
\* clusters (in the order the returned dict enumerates them).

LocalCallables == {"whole", "dup", "omit", "foreign", "empty"}

LocalMethods == {"components", "bogus_local"} \cup LocalCallables

local_callable(method, ego) ==
    CASE method = "whole" ->    \* one cluster holding every neighbour
            IF ego.nodes = {} THEN <<>> ELSE <<ego.nodes>>
      [] method = "dup" ->      \* the first neighbour is in two clusters
            IF ego.nodes = {} THEN <<>> ELSE <<ego.nodes, {Min(ego.nodes)}>>
      [] method = "omit" ->     \* the first neighbour is in no cluster
            IF ego.nodes = {} THEN <<>> ELSE <<ego.nodes \ {Min(ego.nodes)}>>
      [] method = "foreign" ->  \* node 0 is in the cluster, neighbour or not
            <<ego.nodes \cup {0}>>
      [] method = "empty" ->    \* the components, and one more cluster, empty
            connected_components(ego, ego.nodes) \o <<{}>>

----------------------------------------------------------------------------
\* _create_egonet

\* the ego kept in its own ego-net
ego_net_with_ego(G, node) == subgraph(G, neighbors(G, node) \cup {node})

ego_net_minus_ego(G, node) == subgraph(G, neighbors(G, node))

\* lines 35-40: the clusters, or the ValueError
method_known(method) == method \in LocalCallables \/ method = "components"

local_components(G, node, method) ==
    IF method \in LocalCallables
    THEN local_callable(method, ego_net_minus_ego(G, node))
    ELSE connected_components(ego_net_minus_ego(G, node),
                              ego_net_minus_ego(G, node).nodes)

\* the counter not advanced after a cluster
cluster_step_same_index(acc, v) ==
    [new_mapping |-> [o \in DOMAIN acc.new_mapping \cup v |->
                         IF o \in v THEN acc.index ELSE acc.new_mapping[o]],
     personalities |-> Append(acc.personalities, acc.index),
     index |-> acc.index]

\* lines 44-47: one pass of the loop over components.items()
cluster_step(acc, v) ==
    [new_mapping |-> [o \in DOMAIN acc.new_mapping \cup v |->
                         IF o \in v THEN acc.index ELSE acc.new_mapping[o]],
     personalities |-> Append(acc.personalities, acc.index),
     index |-> acc.index + 1]

RECURSIVE cluster_loop(_, _)
cluster_loop(acc, comps) ==
    IF comps = <<>> THEN acc
    ELSE cluster_loop(cluster_step(acc, Head(comps)), Tail(comps))

\* st is [components, personalities, index, error]
create_egonet(st, G, node, method) ==
    IF ~method_known(method) THEN [st EXCEPT !.error = "ValueError"]
    ELSE LET acc == cluster_loop([new_mapping |-> EmptyDict,
                                  personalities |-> <<>>,
                                  index |-> st.index],
                                 local_components(G, node, method))
         IN  [components |-> Put(st.components, node, acc.new_mapping),
              personalities |-> Put(st.personalities, node, acc.personalities),
              index |-> acc.index,
              error |-> "none"]

\* _create_egonets: the loop over graph.nodes(), left at the first exception
RECURSIVE egonets_loop(_, _, _, _)
egonets_loop(st, G, todo, method) ==
    IF todo = <<>> \/ st.error # "none" THEN st
    ELSE egonets_loop(create_egonet(st, G, Head(todo), method), G, Tail(todo), method)

create_egonets(G, method) ==
    egonets_loop([components |-> EmptyDict, personalities |-> EmptyDict,
                  index |-> 0, error |-> "none"],
                 G, SortedSeq(G.nodes), method)

----------------------------------------------------------------------------
\* _map_personalities, line 65: a later node overwrites an earlier one
map_personalities(G, pers) ==
    [p \in UNION {Range(pers[n]) : n \in G.nodes} |->
        Max({n \in G.nodes : p \in Range(pers[n])})]

----------------------------------------------------------------------------
\* _get_new_edge_ids; edge is <<u, v>> or <<u, v, data>>

\* the two lookups of lines 75 and 77 find their keys
has_new_edge_ids(comps, edge) ==
    /\ edge[2] \in DOMAIN comps[edge[1]]
    /\ edge[1] \in DOMAIN comps[edge[2]]

\* both endpoints looked up from the first node's mapping
get_new_edge_ids_one_side(comps, wkey, edge) ==
    IF wkey = "None" \/ edge[3] = NoWeight
    THEN <<comps[edge[1]][edge[2]], comps[edge[1]][edge[2]]>>
    ELSE <<comps[edge[1]][edge[2]], comps[edge[1]][edge[2]], edge[3]>>

\* an absent weight replaced by the default 1
get_new_edge_ids_default_one(comps, wkey, edge) ==
    IF wkey = "None"
    THEN <<comps[edge[1]][edge[2]], comps[edge[2]][edge[1]]>>
    ELSE <<comps[edge[1]][edge[2]], comps[edge[2]][edge[1]],
           IF edge[3] = NoWeight THEN 1 ELSE edge[3]>>

get_new_edge_ids(comps, wkey, edge) ==
    IF wkey = "None" \/ edge[3] = NoWeight
    THEN <<comps[edge[1]][edge[2]], comps[edge[2]][edge[1]]>>
    ELSE <<comps[edge[1]][edge[2]], comps[edge[2]][edge[1]], edge[3]>>

\* lines 83-86
new_edge_list(G, comps, wkey) ==
    LET es == edges(G, wkey # "None")
    IN  [i \in 1..Len(es) |-> get_new_edge_ids(comps, wkey, es[i])]

\* nx.from_edgelist into an nx.Graph: nodes in the order they are first
\* named, one edge per unordered pair, a later tuple's attributes updating
\* the earlier one's.
edge_key(t) == IF t[1] <= t[2] THEN <<t[1], t[2]>> ELSE <<t[2], t[1]>>

add_edge(pg, t) ==
    LET n1 == IF t[1] \in Range(pg.nodes) THEN pg.nodes ELSE Append(pg.nodes, t[1])
        n2 == IF t[2] \in Range(n1) THEN n1 ELSE Append(n1, t[2])
        old == IF edge_key(t) \in DOMAIN pg.w THEN pg.w[edge_key(t)] ELSE NoWeight
    IN  [nodes |-> n2,
         w |-> Put(pg.w, edge_key(t), IF Len(t) = 3 THEN t[3] ELSE old)]

NoPersonaGraph == [nodes |-> <<>>, w |-> EmptyDict]

RECURSIVE from_edgelist_loop(_, _)
from_edgelist_loop(pg, list) ==
    IF list = <<>> THEN pg
    ELSE from_edgelist_loop(add_edge(pg, Head(list)), Tail(list))

from_edgelist(list) == from_edgelist_loop(NoPersonaGraph, list)

----------------------------------------------------------------------------
\* The global strategies: the built-in name, an unrecognised name, and
\* callables from the persona graph to {persona: community}, each result a
\* sequence of <<persona, community>> in the order the dict enumerates.

GlobalCallables == {"rev", "foreign_key", "partial"}

GlobalMethods == {"louvain", "bogus_global"} \cup GlobalCallables

\* the persona graph as a graph over the set of its nodes
as_graph(pg) == [nodes |-> Range(pg.nodes), w |-> pg.w]

\* every persona of a connected component in one community
by_component(pg) ==
    LET cc == connected_components(as_graph(pg), Range(pg.nodes))
    IN  [i \in 1..Len(pg.nodes) |->
            <<pg.nodes[i], (CHOOSE k \in 1..Len(cc) : pg.nodes[i] \in cc[k]) - 1>>]

\* every persona a community of its own
by_node(pg) == [i \in 1..Len(pg.nodes) |-> <<pg.nodes[i], i - 1>>]

\* community.best_partition: total over the nodes of the persona graph,
\* enumerated in the graph's node order; the coarsest and the finest
\* labelling stand for what the optimisation may return.
best_partition(pg) == {by_component(pg), by_node(pg)}

global_callable(method, pg) ==
    CASE method = "rev" ->          \* total, enumerated last node first
            Reverse(by_node(pg))
      [] method = "foreign_key" ->  \* one key that is no node of the graph
            IF pg.nodes = <<>> THEN <<<<0, 0>>>>
            ELSE <<Head(by_component(pg)), <<Max(Range(pg.nodes)) + 1, 0>>>>
                     \o Tail(by_component(pg))
      [] method = "partial" ->      \* the first node of the graph left out
            IF pg.nodes = <<>> THEN <<>> ELSE Tail(by_component(pg))

\* line 102
empty_memberships(G) == [node \in G.nodes |-> <<>>]

\* lines 103-104: the loop over partitions.items(), left at the first
\* persona that personality_map does not know. acc is [op, error].
RECURSIVE aggregate(_, _, _)
aggregate(acc, pmap, items) ==
    IF items = <<>> THEN acc
    ELSE IF Head(items)[1] \notin DOMAIN pmap
         THEN [acc EXCEPT !.error = "KeyError"]
         ELSE aggregate([acc EXCEPT !.op[pmap[Head(items)[1]]] =
                                        Append(@, Head(items)[2])],
                        pmap, Tail(items))

----------------------------------------------------------------------------
\* The configurations an estimator is constructed with (__init__): at most
\* one of the two strategies departs from its default; with a weight key, the
\* local strategy is the default or one of two callables.
Configs ==
    ({"weight"} \X {"components", "whole", "dup"} \X {"louvain"})
        \cup ({"None"} \X LocalMethods \X {"louvain"})
        \cup ({"None"} \X {"components"} \X GlobalMethods)

Init ==
    /\ \E c \in Configs : weight = c[1] /\ method_local = c[2] /\ method_global = c[3]
    /\ graph = NoGraph
    /\ components = EmptyDict
    /\ personalities = EmptyDict
    /\ index = 0
    /\ personality_map = EmptyDict
    /\ persona_graph_edges = <<>>
    /\ persona_graph = NoPersonaGraph
    /\ partitions = <<>>
    /\ overlapping_partitions = EmptyDict
    /\ attrs = {}
    /\ pc = "init"
    /\ error = "none"
    /\ returned = <<>>

\* fit, lines 113-115
Fit ==
    /\ pc = "init"
    /\ \E n \in 0..MaxNodes : \E E \in SUBSET Pairs(n) : \E L \in LoopChoices(n) :
       \E wt \in [E \cup L -> IF weight = "None" THEN {NoWeight}
                               ELSE {NoWeight} \cup 1..MaxWeight] :
          LET G == [nodes |-> 0..(n-1), w |-> wt]
          IN  IF check_graph(G)
              THEN /\ graph' = G
                   /\ attrs' = attrs \cup {"graph"}
                   /\ pc' = "checked"
                   /\ error' = "none"
              ELSE /\ pc' = "failed"
                   /\ error' = "InputGraphInvalid"
                   /\ UNCHANGED <<graph, attrs>>
    /\ UNCHANGED <<config, components, personalities, index, personality_map,
                   persona_graph_edges, persona_graph, partitions,
                   overlapping_partitions, returned>>

\* fit, line 116
CreateEgonets ==
    /\ pc = "checked"
    /\ LET st == create_egonets(graph, method_local)
       IN  /\ components' = st.components
           /\ personalities' = st.personalities
           /\ index' = st.index
           /\ error' = st.error
           /\ pc' = IF st.error = "none" THEN "egonets" ELSE "failed"
    /\ attrs' = attrs \cup {"components", "personalities", "index"}
    /\ UNCHANGED <<config, graph, personality_map, persona_graph_edges,
                   persona_graph, partitions, overlapping_partitions, returned>>

\* fit, line 117
MapPersonalities ==
    /\ pc = "egonets"
    /\ personality_map' = map_personalities(graph, personalities)
    /\ attrs' = attrs \cup {"personality_map"}
    /\ pc' = "mapped"
    /\ UNCHANGED <<config, graph, components, personalities, index,
                   persona_graph_edges, persona_graph, partitions,
                   overlapping_partitions, error, returned>>

\* fit, line 118: a lookup that misses raises KeyError before either
\* attribute is assigned
CreatePersonaGraph ==
    /\ pc = "mapped"
    /\ IF \A e \in Range(edges(graph, FALSE)) : has_new_edge_ids(components, e)
       THEN /\ persona_graph_edges' = new_edge_list(graph, components, weight)
            /\ persona_graph' = from_edgelist(persona_graph_edges')
            /\ attrs' = attrs \cup {"persona_graph_edges", "persona_graph"}
            /\ pc' = "persona_graph"
            /\ error' = "none"
       ELSE /\ pc' = "failed"
            /\ error' = "KeyError"
            /\ UNCHANGED <<persona_graph_edges, persona_graph, attrs>>
    /\ UNCHANGED <<config, graph, components, personalities, index,
                   personality_map, partitions, overlapping_partitions, returned>>

\* fit, line 119: _create_partitions. An unrecognised name assigns no
\* partitions (lines 95-101), and line 103 then reads the attribute.
CreatePartitions ==
    /\ pc = "persona_graph"
    /\ \E result \in IF method_global \in GlobalCallables
                     THEN {global_callable(method_global, persona_graph)}
                     ELSE IF method_global = "louvain"
                          THEN best_partition(persona_graph)
                          ELSE {partitions} :
          LET assigned == method_global \in GlobalCallables \cup {"louvain"}
              acc == IF assigned \/ "partitions" \in attrs
                     THEN aggregate([op |-> empty_memberships(graph), error |-> "none"],
                                    personality_map, result)
                     ELSE [op |-> empty_memberships(graph), error |-> "AttributeError"]
          IN  /\ partitions' = result
              /\ attrs' = attrs \cup {"overlapping_partitions"}
                                \cup (IF assigned THEN {"partitions"} ELSE {})
              /\ overlapping_partitions' = acc.op
              /\ error' = acc.error
              /\ pc' = IF acc.error = "none" THEN "done" ELSE "failed"
    /\ UNCHANGED <<config, graph, components, personalities, index,
                   personality_map, persona_graph_edges, persona_graph, returned>>

\* get_memberships, line 127: the attribute, or AttributeError when no fit
\* has assigned it. returned is <<>> until the call, then <<outcome, value>>.
GetMemberships ==
    /\ pc \in {"init", "done", "failed"}
    /\ returned = <<>>
    /\ returned' = IF "overlapping_partitions" \in attrs
                   THEN <<"value", overlapping_partitions>>
                   ELSE <<"AttributeError", EmptyDict>>
    /\ UNCHANGED <<config, graph, components, personalities, index,
                   personality_map, persona_graph_edges, persona_graph,
                   partitions, overlapping_partitions, attrs, pc, error>>

Next ==
    \/ Fit
    \/ CreateEgonets
    \/ MapPersonalities
    \/ CreatePersonaGraph
    \/ CreatePartitions
    \/ GetMemberships

Spec == Init /\ [][Next]_vars

----------------------------------------------------------------------------
\* What the claims speak of

\* the stage has run to its end in this fit
EgonetsBuilt == "components" \in attrs /\ error # "ValueError"

Mapped == "personality_map" \in attrs

PersonaGraphBuilt == "persona_graph" \in attrs

FitEnded == pc \in {"done", "failed"}

\* the clusters the local strategy gave for the ego-net of n
LocalClusters(n) == local_components(graph, n, method_local)

RECURSIVE SumOver(_, _)
SumOver(f, S) ==
    IF S = {} THEN 0
    ELSE LET x == CHOOSE y \in S : TRUE IN Len(f[x]) + SumOver(f, S \ {x})

ClusterCount == SumOver([n \in graph.nodes |-> LocalClusters(n)], graph.nodes)

PartitionKeys == {partitions[i][1] : i \in DOMAIN partitions}

AllPersonas == UNION {Range(personalities[n]) : n \in DOMAIN personalities}

\* CommunityAssignment[p], for p a key of the partitioner's result
CommunityOf(p) == (CHOOSE it \in Range(partitions) : it[1] = p)[2]

\* a and b are joined inside the subgraph induced on V: no part of V holds
\* a, not b, and no edge of the subgraph leaves it
ConnectedIn(G, V, a, b) ==
    ~ \E S \in SUBSET V :
          /\ a \in S
          /\ b \notin S
          /\ \A x \in S : neighbors(G, x) \cap V \subseteq S

AllWeighted == \A e \in DOMAIN graph.w : graph.w[e] # NoWeight

PersonaPair(e) == edge_key(<<components[e[1]][e[2]], components[e[2]][e[1]]>>)

\* the clusters partition V exactly: nothing foreign, nothing left out,
\* nothing twice
PartitionsExactly(clusters, V) ==
    /\ \A i \in DOMAIN clusters : clusters[i] \subseteq V
    /\ UNION Range(clusters) = V
    /\ \A i, j \in DOMAIN clusters : i # j => clusters[i] \cap clusters[j] = {}

----------------------------------------------------------------------------
\* the local strategy kept its contract at every node
LocalContractKept ==
    \A n \in graph.nodes : PartitionsExactly(LocalClusters(n), neighbors(graph, n))

\* the partitioner kept its contract: it assigned exactly the nodes of the
\* persona graph
GlobalContractKept == PartitionKeys = Range(persona_graph.nodes)

\* C1: after a completed fit, the membership list of every node n is
\* [CommunityAssignment[p] for p in personalities[n]], in the order the
\* personas of n were created (stated where both strategies kept their
\* contracts and every persona was assigned, so that the list is defined).
C1_CreationOrder ==
    (/\ pc = "done"
     /\ LocalContractKept
     /\ GlobalContractKept
     /\ AllPersonas \subseteq PartitionKeys) =>
        \A n \in graph.nodes :
            overlapping_partitions[n] =
                [i \in 1..Len(personalities[n]) |-> CommunityOf(personalities[n][i])]

\* C2: after a completed fit, every node has as many membership entries as
\* the local strategy produced clusters for its ego-net (stated where both
\* strategies kept their contracts).
C2_OneEntryPerCluster ==
    (pc = "done" /\ LocalContractKept /\ GlobalContractKept) =>
        \A n \in graph.nodes :
            Len(overlapping_partitions[n]) = Len(LocalClusters(n))

\* C3: after the ego-net and persona-mapping stages, the persona ids are
\* exactly 0..K-1 for K the number of local clusters, none twice, and
\* personality_map sends each to the one node that lists it.
C3_PersonaIdsExact ==
    Mapped =>
        LET K == ClusterCount
            ids == AllPersonas
        IN  /\ ids = 0..(K - 1)
            /\ SumOver(personalities, graph.nodes) = K
            /\ \A n \in graph.nodes :
                   Cardinality(Range(personalities[n])) = Len(personalities[n])
            /\ DOMAIN personality_map = 0..(K - 1)
            /\ \A p \in 0..(K - 1) : \A n \in graph.nodes :
                   personality_map[p] = n <=> p \in Range(personalities[n])

C3_Witness ==
    /\ pc = "mapped"
    /\ index >= 3
    /\ \E n \in graph.nodes : Len(personalities[n]) >= 2

\* C4: in weighted mode, when every edge carries a weight, the persona graph
\* has as many edges as the graph, and each edge (u, v, w) is the one edge
\* between components[u][v] and components[v][u], with weight w.
C4_EdgesOneToOne ==
    (weight # "None" /\ PersonaGraphBuilt /\ AllWeighted) =>
        /\ Len(persona_graph_edges) = Cardinality(DOMAIN graph.w)
        /\ Cardinality(DOMAIN persona_graph.w) = Cardinality(DOMAIN graph.w)
        /\ \A e \in DOMAIN graph.w :
               /\ PersonaPair(e) \in DOMAIN persona_graph.w
               /\ persona_graph.w[PersonaPair(e)] = graph.w[e]
        /\ \A e, f \in DOMAIN graph.w : e # f => PersonaPair(e) # PersonaPair(f)

C4_Witness ==
    /\ pc = "persona_graph"
    /\ weight = "weight"
    /\ AllWeighted
    /\ \E e, f \in DOMAIN graph.w : graph.w[e] # graph.w[f]

\* C5: with the 'components' strategy, components[n] maps exactly the
\* neighbours of n, two neighbours share a persona exactly when a path
\* joins them inside the ego-net, and every persona of n is the persona of
\* some neighbour (an isolated neighbour has a persona of its own).
C5_ConnectedComponents ==
    (method_local = "components" /\ EgonetsBuilt) =>
        \A n \in graph.nodes :
            /\ DOMAIN components[n] = neighbors(graph, n)
            /\ \A a, b \in neighbors(graph, n) :
                   components[n][a] = components[n][b]
                       <=> ConnectedIn(graph, neighbors(graph, n), a, b)
            /\ Range(personalities[n]) = Range(components[n])
            /\ Len(personalities[n]) = Cardinality(Range(components[n]))

\* the centre of a star with two leaves has two personas, each leaf one
C5_Witness ==
    /\ method_local = "components"
    /\ pc = "egonets"
    /\ \E c \in graph.nodes :
          /\ Cardinality(neighbors(graph, c)) = 2
          /\ Len(personalities[c]) = 2
          /\ \A l \in neighbors(graph, c) : Len(personalities[l]) = 1

C7_InvalidStrategyRejected ==
    (method_local \in LocalCallables /\ EgonetsBuilt) =>
        \A n \in graph.nodes : PartitionsExactly(LocalClusters(n), neighbors(graph, n))

\* C8: no node is in its own ego-net, in one of its own clusters, or a key
\* of its own components mapping.
C8_EgoExcluded ==
    EgonetsBuilt =>
        \A n \in graph.nodes :
            /\ n \notin ego_net_minus_ego(graph, n).nodes
            /\ \A i \in DOMAIN LocalClusters(n) : n \notin LocalClusters(n)[i]
            /\ n \notin DOMAIN components[n]

\* C9: with an unrecognised strategy name, a fit of a graph that passed the
\* graph check ends in the unsupported-strategy error and leaves no
\* partitioning result.
C9_UnsupportedNameRejected ==
    (/\ method_local = "bogus_local" \/ method_global = "bogus_global"
     /\ FitEnded
     /\ error # "InputGraphInvalid") =>
        /\ error = "ValueError"
        /\ "overlapping_partitions" \notin attrs

\* C10: after a fit that ended in an error, get_memberships() returns no
\* mapping that holds entries this fit put in.
C10_NoPartialResult ==
    (pc = "failed" /\ returned # <<>> /\ returned[1] = "value") =>
        \A n \in DOMAIN returned[2] : returned[2][n] = <<>>
====
